---- MODULE Spec2Model ----
(***************************************************************************)
(* Model of the two admin forms of fqueta/crm-2:                           *)
(*   - SiteComponentsForm.tsx: the gallery upload lifecycle                *)
(*     (handleFilesDrop, uploadsQuery, isGallery);                         *)
(*     and the component form (schema, hydrateForm, submit);               *)
(*   - CourseForm (unnamed/part_000): reconciliation of a loaded course    *)
(*     record with the form defaults (applyInitialData), courseSchema,     *)
(*     the module rows and the submit.                                     *)
(* The component is modelled while it is mounted; React state updates are  *)
(* applied in the order the handlers queue them.                           *)
(***************************************************************************)
EXTENDS Integers, Sequences, FiniteSets, TLC

\* ------------------------------------------------------------- bounds
\* Batches of files that handleFilesDrop is given in one run of the model.
MaxBatches == 2
\* Files in one batch.
MaxFiles == 2
Batches == 1..MaxBatches
\* Changes made to the fields of the course form in one editing session.
MaxEdits == 2
\* Module rows of a course.
MaxModules == 2

\* ------------------------------------------------------------- values
\* JavaScript's undefined (an absent property).
Undefined == "<undefined>"
\* JavaScript's null.
Null == "<null>"

\* The values of the options of the tipo_conteudo Select,
\* String(opt.id ?? opt.value ?? opt.codigo): another content type, the gallery
\* id, and a code that is not "19" but converts to the number 19.
TypeOptions == {"5", "19", "19.0"}

\* The values the tipo_conteudo field takes: the form default '' and the options.
TypeValues == {""} \cup TypeOptions

\* Number(v) for the strings of TypeValues.
ToNumber(v) ==
  CASE v = ""     -> 0
    [] v = "5"    -> 5
    [] v = "19"   -> 19
    [] v = "19.0" -> 19

\* isGallery: String(selectedTypeValue) === '19' || Number(selectedTypeValue) === 19
IsGalleryValue(v) == v = "19" \/ ToNumber(v) = 19

\* The errors an uploadFile call rejects with: err.body.message and err.message,
\* each absent, empty or a text.
UploadErrors ==
  [body : {Undefined, "", "srv"}, message : {Undefined, "", "net"}]

\* The fallback text of the failure toast.
GenericMsg == "Falha ao enviar arquivo."

\* JavaScript truthiness of a message value.
Truthy(s) == s # Undefined /\ s # Null /\ s # ""

\* apiMsg = err?.body?.message || err?.message || 'Falha ao enviar arquivo.'
ApiMsgTransportOnly(err) ==
  IF Truthy(err.message) THEN err.message ELSE GenericMsg
ApiMsg(err) ==
  IF Truthy(err.body) THEN err.body
  ELSE IF Truthy(err.message) THEN err.message
  ELSE GenericMsg

\* ------------------------------------------------------------- state
VARIABLES
  tipo_conteudo,   \* form value of the tipo_conteudo field
  isUploading,     \* useState(false)
  localPreviews,   \* useState([]): sequence of preview handles
  allocated,       \* handles URL.createObjectURL has returned
  revoked,         \* handles URL.revokeObjectURL has been called on
  nextBatch,       \* id of the next non-empty batch
  files,           \* files[b]: number of files of batch b
  pc,              \* pc[b]: "idle", "uploading", "refetching", "done"
  started,         \* uploadFile calls issued, as <<batch, index>>
  inflight,        \* uploadFile calls not yet settled
  succeeded,       \* uploadFile calls that resolved
  failed,          \* uploadFile calls that rejected
  refetched,       \* batches that called uploadsQuery.refetch()
  queryFetching,   \* a fetch issued by the uploadsQuery observer is pending
  uploadsData,     \* uploadsQuery.data: Undefined or the server's listing
  toastCount,      \* toastCount[b]: toasts sent by the catch block of batch b
  event,           \* what the last step did besides: a toast, an empty drop
  initialData,     \* CourseForm: the initialData prop
  values,          \* CourseForm: the form values
  errors,          \* CourseForm: form.formState.errors, as last rendered
  isSubmitted,     \* CourseForm: form.formState.isSubmitted
  edits,           \* CourseForm: changes made to the fields so far
  outcome,         \* CourseForm: what the last step did: a toast, onSubmit
  record,          \* the component loaded by useComponentById
  componentValues, \* the component form values other than tipo_conteudo
  componentOutcome,\* what the last submit of the component form did
  id,              \* useParams().id of the component page
  requests,        \* create and update calls that have not settled
  location         \* "form", or the path navigate() was called with

uvars == <<tipo_conteudo, isUploading, localPreviews, allocated, revoked,
           nextBatch, files, pc, started, inflight, succeeded, failed,
           refetched, queryFetching, uploadsData, toastCount, event>>

cvars == <<initialData, values, errors, isSubmitted, edits, outcome>>
fvars == <<record, componentValues, componentOutcome, id, requests, location>>

isGallery == IsGalleryValue(tipo_conteudo)

Range(s) == {s[i] : i \in DOMAIN s}

CallsOf(b, S) == {c \in S : c[1] = b}

\* uploadsQuery.data before the first successful fetch of the listing.
NoListing == Undefined

\* What a successful listUploads call leaves in uploadsQuery.data: the server's
\* list, whose records are not modelled.
ServerListing == "listing"

\* The events of a step that the state would not show otherwise.
NoEvent == [op |-> "none", description |-> ""]
\* handleFilesDrop was called with no file.
EmptyDropEvent == [op |-> "emptyDrop", description |-> ""]
\* toast({ title: 'Falha no upload', description, variant: 'destructive' })
ToastEvent(description) == [op |-> "toast", description |-> description]

\* A step that sends no toast and is no empty drop.
Quiet == event' = NoEvent

UploadInit ==
  /\ tipo_conteudo = ""
  /\ isUploading = FALSE
  /\ localPreviews = <<>>
  /\ allocated = {}
  /\ revoked = {}
  /\ nextBatch = 1
  /\ files = [b \in Batches |-> 0]
  /\ pc = [b \in Batches |-> "idle"]
  /\ started = {}
  /\ inflight = {}
  /\ succeeded = {}
  /\ failed = {}
  /\ refetched = {}
  /\ queryFetching = FALSE
  /\ uploadsData = NoListing
  /\ toastCount = [b \in Batches |-> 0]
  /\ event = NoEvent

\* ------------------------------------------------- handleFilesDrop
\* if (arr.length === 0) return;
EmptySelectionNever(n) == FALSE
EmptySelection(n) == n = 0

\* previews = arr.map((f) => ({ url: URL.createObjectURL(f), ... })): one handle
\* per file of batch b, in the order of the files.
CreatePreviewsFirstOnly(b, n) == IF n = 0 THEN <<>> ELSE << <<b, 1>> >>
CreatePreviews(b, n) == [i \in 1..n |-> <<b, i>>]

\* for (const file of arr) { await uploadsService.uploadFile(file, ...) }:
\* the indexes of the calls issued once the call for file i has resolved
\* (i = 0: on entering the loop), for a batch of n files.
NextCallsAllAtOnce(i, n) == IF i = 0 THEN 1..n ELSE {}
NextCallsNoAwait(i, n) == {j \in {i + 1, i + 2} : j <= n}
NextCalls(i, n) == IF i < n THEN {i + 1} ELSE {}

\* await uploadsQuery.refetch(): a fetch of the listing, whatever `enabled` is.
IssueRefetchOmitted(b) ==
  /\ refetched' = refetched
  /\ pc' = [pc EXCEPT ![b] = "refetching"]
IssueRefetch(b) ==
  /\ refetched' = refetched \cup {b}
  /\ pc' = [pc EXCEPT ![b] = "refetching"]

\* finally { setLocalPreviews((prev) => { prev.forEach(revoke); return []; });
\*           setIsUploading(false); }
FinallyKeepsUploading ==
  /\ revoked' = revoked \cup Range(localPreviews)
  /\ localPreviews' = <<>>
  /\ isUploading' = isUploading
Finally ==
  /\ revoked' = revoked \cup Range(localPreviews)
  /\ localPreviews' = <<>>
  /\ isUploading' = FALSE

\* The drop-zone's onDrop and the file input's onChange: handleFilesDrop(files)
\* with n files. The drop-zone is rendered only while isGallery holds; neither
\* handler reads isUploading.
HandleFilesDrop(n) ==
  /\ isGallery
  /\ event' = IF n = 0 THEN EmptyDropEvent ELSE NoEvent
  /\ IF EmptySelection(n)
     THEN UNCHANGED <<isUploading, localPreviews, allocated, revoked, nextBatch,
                      files, pc, started, inflight, refetched>>
     ELSE /\ nextBatch <= MaxBatches
          /\ LET b == nextBatch
                 previews == CreatePreviews(b, n)
                 calls == {<<b, j>> : j \in NextCalls(0, n)}
             IN /\ nextBatch' = b + 1
                /\ files' = [files EXCEPT ![b] = n]
                /\ isUploading' = TRUE
                /\ allocated' = allocated \cup Range(previews)
                /\ localPreviews' = localPreviews \o previews
                /\ started' = started \cup calls
                /\ inflight' = inflight \cup calls
                /\ IF calls = {}
                   THEN IssueRefetch(b)
                   ELSE /\ pc' = [pc EXCEPT ![b] = "uploading"]
                        /\ UNCHANGED refetched
          /\ UNCHANGED revoked
  /\ UNCHANGED <<tipo_conteudo, succeeded, failed, queryFetching, uploadsData,
                 toastCount>>

\* The pending uploadFile call for file i of batch b resolves: the loop goes on
\* to the next file, or leaves the loop and refetches the listing.
UploadResolve(b, i) ==
  /\ pc[b] = "uploading"
  /\ <<b, i>> \in inflight
  /\ LET calls == {<<b, j>> : j \in NextCalls(i, files[b])}
     IN /\ succeeded' = succeeded \cup {<<b, i>>}
        /\ started' = started \cup calls
        /\ inflight' = (inflight \ {<<b, i>>}) \cup calls
        /\ IF calls = {}
           THEN IssueRefetch(b)
           ELSE UNCHANGED <<refetched, pc>>
  /\ Quiet
  /\ UNCHANGED <<tipo_conteudo, isUploading, localPreviews, allocated, revoked,
                 nextBatch, files, failed, queryFetching, uploadsData,
                 toastCount>>

\* The pending uploadFile call for file i of batch b rejects with err: the
\* catch block sends the toast, then the finally block runs.
UploadReject(b, i, err) ==
  /\ pc[b] = "uploading"
  /\ <<b, i>> \in inflight
  /\ failed' = failed \cup {<<b, i>>}
  /\ inflight' = inflight \ {<<b, i>>}
  /\ event' = ToastEvent(ApiMsg(err))
  /\ toastCount' = [toastCount EXCEPT ![b] = @ + 1]
  /\ Finally
  /\ pc' = [pc EXCEPT ![b] = "done"]
  /\ UNCHANGED <<tipo_conteudo, allocated, nextBatch, files, started, succeeded,
                 refetched, queryFetching, uploadsData>>

\* The refetch of batch b settles (refetch() does not throw: a failed fetch
\* leaves the data as it was), then the finally block runs.
RefetchSettle(b, ok) ==
  /\ pc[b] = "refetching"
  /\ uploadsData' = IF ok THEN ServerListing
                          ELSE uploadsData
  /\ Finally
  /\ pc' = [pc EXCEPT ![b] = "done"]
  /\ Quiet
  /\ UNCHANGED <<tipo_conteudo, allocated, nextBatch, files, started, inflight,
                 succeeded, failed, refetched, queryFetching, toastCount>>

\* ------------------------------------------------- uploadsQuery
\* enabled: isGallery
QueryEnabled == isGallery

\* The query observer fetches the listing (on mount, when stale, on focus) only
\* while the query is enabled.
QueryFetch ==
  /\ QueryEnabled
  /\ ~queryFetching
  /\ queryFetching' = TRUE
  /\ Quiet
  /\ UNCHANGED <<tipo_conteudo, isUploading, localPreviews, allocated, revoked,
                 nextBatch, files, pc, started, inflight, succeeded, failed,
                 refetched, uploadsData, toastCount>>

\* The observer's fetch settles.
QuerySettle(ok) ==
  /\ queryFetching
  /\ queryFetching' = FALSE
  /\ uploadsData' = IF ok THEN ServerListing
                          ELSE uploadsData
  /\ Quiet
  /\ UNCHANGED <<tipo_conteudo, isUploading, localPreviews, allocated, revoked,
                 nextBatch, files, pc, started, inflight, succeeded, failed,
                 refetched, toastCount>>

\* ------------------------------------------------- tipo_conteudo
\* <Select value={field.value} onValueChange={field.onChange}>
SelectTipoConteudo(v) ==
  /\ v \in TypeOptions
  /\ v # tipo_conteudo
  /\ tipo_conteudo' = v
  /\ Quiet
  /\ UNCHANGED <<isUploading, localPreviews, allocated, revoked, nextBatch,
                 files, pc, started, inflight, succeeded, failed, refetched,
                 queryFetching, uploadsData, toastCount>>

\* ------------------------------------------------- CourseForm
\* JavaScript values of object type carry a tag: "undefined" (absent), "null"
\* or "object"; an absent or null leaf of an object is Undefined or Null.
Nullish(v) == v = Undefined \/ v = Null
NullishObj(o) == o.tag = "undefined" \/ o.tag = "null"

\* x ?? d, for a string leaf and for an object.
Coalesce(x, d) == IF Nullish(x) THEN d ELSE x
CoalesceObj(o, d) == IF NullishObj(o) THEN d ELSE o

\* The top-level scalar fields of a course and the scalar leaves of its config.
TopFields ==
  {"nome", "titulo", "ativo", "destaque", "publicar", "duracao",
   "unidade_duracao", "tipo", "categoria", "inscricao", "valor", "parcelas",
   "valor_parcela"}
ConfigScalars ==
  {"proximo_curso", "gratis", "comissao", "tipo_desconto_taxa",
   "desconto_taxa", "pagina_divulgacao", "video"}

\* useForm({ defaultValues }): the top-level scalar fields.
DefaultTopZeroParcelas ==
  [f \in TopFields |->
     CASE f \in {"nome", "titulo"} -> ""
       [] f \in {"ativo", "publicar"} -> "s"
       [] f = "destaque" -> "n"
       [] f \in {"duracao", "parcelas"} -> "0"
       [] f = "unidade_duracao" -> "Hrs"
       [] f = "tipo" -> "2"
       [] f = "categoria" -> "cursos_online"
       [] f \in {"inscricao", "valor", "valor_parcela"} -> "0,00"]
DefaultTop ==
  [f \in TopFields |->
     CASE f \in {"nome", "titulo"} -> ""
       [] f \in {"ativo", "publicar"} -> "s"
       [] f = "destaque" -> "n"
       [] f = "duracao" -> "0"
       [] f = "unidade_duracao" -> "Hrs"
       [] f = "tipo" -> "2"
       [] f = "categoria" -> "cursos_online"
       [] f \in {"inscricao", "valor", "valor_parcela"} -> "0,00"
       [] f = "parcelas" -> "1"]

\* Objects and arrays of the form values.
Obj(fields) == [tag |-> "object", at |-> fields]
Arr(items) == [tag |-> "array", items |-> items]
UndefinedObj == [tag |-> "undefined", at |-> <<>>]
NullObj == [tag |-> "null", at |-> <<>>]
UndefinedArr == [tag |-> "undefined", items |-> <<>>]
NullArr == [tag |-> "null", items |-> <<>>]

\* The leaves of the nested objects of config and their defaults, as both
\* defaultValues and applyInitialData write them.
PaginaVendaLeaves == {"link", "label"}
AdcLeaves == {"recheck", "recorrente", "cor"}
EadLeaves == {"id_eadcontrol"}
DefaultPaginaVenda == Obj([l \in PaginaVendaLeaves |-> ""])
DefaultAdc ==
  Obj([l \in AdcLeaves |-> IF l = "cor" THEN "FFFFFF" ELSE "n"])
DefaultEad == Obj([l \in EadLeaves |-> ""])
DefaultTx2 == Arr(<<[name_label |-> "", name_valor |-> ""]>>)

\* useForm({ defaultValues: { ..., config: { ... } } })
DefaultConfigScalars ==
  [f \in ConfigScalars |->
     CASE f = "gratis" -> "n"
       [] f = "comissao" -> "0,00"
       [] f = "tipo_desconto_taxa" -> "v"
       [] OTHER -> ""]
DefaultValues ==
  [top |-> DefaultTop,
   config |-> [scalars |-> DefaultConfigScalars,
               tx2 |-> DefaultTx2,
               pagina_venda |-> DefaultPaginaVenda,
               adc |-> DefaultAdc,
               ead |-> DefaultEad],
   aeronaves |-> Arr(<<>>),
   modulos |-> Arr(<<>>)]

\* The defaults applyInitialData gives the scalar leaves of config.
ResetConfigScalars ==
  [f \in ConfigScalars |->
     CASE f = "gratis" -> "n"
       [] f = "tipo_desconto_taxa" -> "v"
       [] OTHER -> ""]

\* c.config?.leaf, for a scalar leaf, the tx2 array and a nested object.
ConfigScalar(c, f) ==
  IF NullishObj(c.config) THEN Undefined ELSE c.config.at.scalars[f]
ConfigTx2(c) ==
  IF NullishObj(c.config) THEN UndefinedArr ELSE c.config.at.tx2
ConfigObj(c, f) ==
  IF NullishObj(c.config) THEN UndefinedObj ELSE c.config.at[f]

\* c.config?.tx2?.length ? c.config.tx2 : [{ name_label: '', name_valor: '' }]
ResetTx2(c) ==
  LET t == ConfigTx2(c)
  IN IF t.tag = "array" /\ Len(t.items) > 0 THEN t ELSE DefaultTx2

\* pagina_venda: c.config?.pagina_venda ?? { link: '', label: '' }, and the
\* same for adc and ead.
ResetNested(c, f, default) == CoalesceObj(ConfigObj(c, f), default)

\* The argument of form.reset(...) for the loaded record c.
ResetValues(c) ==
  [top |-> c.top,
   config |-> [scalars |-> [f \in ConfigScalars |->
                              Coalesce(ConfigScalar(c, f), ResetConfigScalars[f])],
               tx2 |-> ResetTx2(c),
               pagina_venda |-> ResetNested(c, "pagina_venda", DefaultPaginaVenda),
               adc |-> ResetNested(c, "adc", DefaultAdc),
               ead |-> ResetNested(c, "ead", DefaultEad)],
   aeronaves |-> IF c.aeronaves.tag = "array" THEN c.aeronaves ELSE Arr(<<>>),
   modulos |-> IF c.modulos.tag = "array" THEN c.modulos ELSE Arr(<<>>)]

\* ------------------------------------------------- text
\* The texts of the model: what the fields hold by default, what the remote
\* store sends and what is typed.
Vocabulary ==
  {"", " ", "x", "T", "0", "1", "2", "5", "7", "12", "19", "19.0", " 12 ",
   "12 ", "1a", "a1b2", "1b2", "_", "_12_", "s", "n", "Hrs", "Min",
   "cursos_online", "0,00", "R$ 900,00", "-1,00", "etapa1", "etapa2",
   "remote"}

\* The characters of a text.
Chars(s) ==
  CASE s = "" -> <<>>
    [] s = " " -> <<" ">>
    [] s = "x" -> <<"x">>
    [] s = "T" -> <<"T">>
    [] s = "0" -> <<"0">>
    [] s = "1" -> <<"1">>
    [] s = "2" -> <<"2">>
    [] s = "5" -> <<"5">>
    [] s = "7" -> <<"7">>
    [] s = "19" -> <<"1", "9">>
    [] s = "19.0" -> <<"1", "9", ".", "0">>
    [] s = "12" -> <<"1", "2">>
    [] s = " 12 " -> <<" ", "1", "2", " ">>
    [] s = "12 " -> <<"1", "2", " ">>
    [] s = "1b2" -> <<"1", "b", "2">>
    [] s = "_" -> <<"_">>
    [] s = "_12_" -> <<"_", "1", "2", "_">>
    [] s = "1a" -> <<"1", "a">>
    [] s = "a1b2" -> <<"a", "1", "b", "2">>
    [] s = "s" -> <<"s">>
    [] s = "n" -> <<"n">>
    [] s = "Hrs" -> <<"H", "r", "s">>
    [] s = "Min" -> <<"M", "i", "n">>
    [] s = "cursos_online" ->
         <<"c", "u", "r", "s", "o", "s", "_", "o", "n", "l", "i", "n", "e">>
    [] s = "0,00" -> <<"0", ",", "0", "0">>
    [] s = "R$ 900,00" -> <<"R", "$", " ", "9", "0", "0", ",", "0", "0">>
    [] s = "-1,00" -> <<"-", "1", ",", "0", "0">>
    [] s = "etapa1" -> <<"e", "t", "a", "p", "a", "1">>
    [] s = "etapa2" -> <<"e", "t", "a", "p", "a", "2">>
    [] s = "remote" -> <<"r", "e", "m", "o", "t", "e">>

\* The text made of the characters cs.
Str(cs) == CHOOSE s \in Vocabulary : Chars(s) = cs

\* A value that is a string: neither undefined nor null.
IsString(v) == v # Undefined /\ v # Null

IsSpace(ch) == ch = " "
IsDigit(ch) == ch \in {"0", "1", "2", "3", "4", "5", "6", "7", "8", "9"}
DigitValue(ch) ==
  CASE ch = "0" -> 0 [] ch = "1" -> 1 [] ch = "2" -> 2 [] ch = "3" -> 3
    [] ch = "4" -> 4 [] ch = "5" -> 5 [] ch = "6" -> 6 [] ch = "7" -> 7
    [] ch = "8" -> 8 [] ch = "9" -> 9

\* String.prototype.trim
RECURSIVE TrimStart(_)
TrimStart(cs) ==
  IF cs # <<>> /\ IsSpace(Head(cs)) THEN TrimStart(Tail(cs)) ELSE cs
RECURSIVE TrimEnd(_)
TrimEnd(cs) ==
  IF cs # <<>> /\ IsSpace(cs[Len(cs)])
  THEN TrimEnd(SubSeq(cs, 1, Len(cs) - 1))
  ELSE cs
Trim(cs) == TrimEnd(TrimStart(cs))

\* /^\d+$/.test(cs)
MatchesDigits(cs) == Len(cs) >= 1 /\ \A i \in 1..Len(cs) : IsDigit(cs[i])

\* parseInt(cs, 10), for a text of digits.
RECURSIVE ParseInt(_)
ParseInt(cs) ==
  IF cs = <<>> THEN 0
  ELSE ParseInt(SubSeq(cs, 1, Len(cs) - 1)) * 10 + DigitValue(cs[Len(cs)])

\* value.replace(/\D/g, '')
OnlyDigitsFirstOnly(cs) ==
  IF \E i \in 1..Len(cs) : ~IsDigit(cs[i])
  THEN LET i == CHOOSE j \in 1..Len(cs) :
                  ~IsDigit(cs[j]) /\ \A k \in 1..(j - 1) : IsDigit(cs[k])
       IN SubSeq(cs, 1, i - 1) \o SubSeq(cs, i + 1, Len(cs))
  ELSE cs
OnlyDigits(cs) == SelectSeq(cs, IsDigit)

\* currencyRemoveMaskToNumber(v), in hundredths: the currency symbol, the
\* thousands separators and the decimal comma are stripped; a minus sign makes
\* the value negative.
CurrencyRemoveMaskToNumber(cs) ==
  LET n == ParseInt(OnlyDigits(cs))
  IN IF \E i \in 1..Len(cs) : cs[i] = "-" THEN 0 - n ELSE n

\* ------------------------------------------------- courseSchema
\* A path of the error map without an error.
NoError == "<none>"
\* The messages of the checks the schema gives no message for.
InvalidType == "invalid_type"
InvalidEnumValue == "invalid_enum_value"
TooSmall == "too_small"

\* z.string().min(1, message)
StringMin1(v, message) ==
  IF ~IsString(v) THEN InvalidType
  ELSE IF Len(Chars(v)) < 1 THEN message
  ELSE NoError

\* z.string().optional()
OptionalString(v) ==
  IF v = Undefined THEN NoError
  ELSE IF v = Null THEN InvalidType
  ELSE NoError

\* z.enum(options), with .optional() or with a required_error
EnumError(v, options, optional, requiredError) ==
  IF v = Undefined THEN (IF optional THEN NoError ELSE requiredError)
  ELSE IF v = Null THEN InvalidType
  ELSE IF v \in options THEN NoError
  ELSE InvalidEnumValue

\* z.array(z.string()).optional()
OptionalArray(a) == IF a.tag = "null" THEN InvalidType ELSE NoError

\* duracao: z.string().min(1, ...).refine((v) => /^\d+$/.test(String(v).trim()), ...)
DuracaoError(v) ==
  IF ~IsString(v) THEN InvalidType
  ELSE IF Len(Chars(v)) < 1 THEN "Duração é obrigatória"
  ELSE IF ~MatchesDigits(Trim(Chars(v))) THEN "Duração deve ser um número inteiro"
  ELSE NoError

\* parcelas: z.string().min(1, ...).refine((v) => /^\d+$/.test(String(v).trim())
\*   && parseInt(String(v).trim(), 10) >= 1, ...)
ParcelasError(v) ==
  IF ~IsString(v) THEN InvalidType
  ELSE IF Len(Chars(v)) < 1 THEN "Parcelas é obrigatório"
  ELSE IF ~(MatchesDigits(Trim(Chars(v))) /\ ParseInt(Trim(Chars(v))) >= 1)
       THEN "Parcelas deve ser inteiro >= 1"
  ELSE NoError

\* inscricao, valor, valor_parcela:
\* z.string().refine((v) => currencyRemoveMaskToNumber(v) >= 0, message)
CurrencyError(v, message) ==
  IF ~IsString(v) THEN InvalidType
  ELSE IF ~(CurrencyRemoveMaskToNumber(Chars(v)) >= 0) THEN message
  ELSE NoError

\* The first issue courseSchema raises on the top-level field f holding v.
FieldError(f, v) ==
  CASE f = "nome" -> StringMin1(v, "Nome interno é obrigatório")
    [] f = "titulo" -> StringMin1(v, "Título é obrigatório")
    [] f \in {"ativo", "destaque", "publicar"} ->
         EnumError(v, {"s", "n"}, TRUE, NoError)
    [] f = "duracao" -> DuracaoError(v)
    [] f = "unidade_duracao" ->
         EnumError(v, {"Hrs", "Min"}, FALSE, "Unidade é obrigatória")
    [] f = "tipo" -> StringMin1(v, "Tipo é obrigatório")
    [] f = "categoria" -> StringMin1(v, "Categoria é obrigatória")
    [] f = "inscricao" -> CurrencyError(v, "Inscrição inválida")
    [] f = "valor" -> CurrencyError(v, "Valor inválido")
    [] f = "parcelas" -> ParcelasError(v)
    [] f = "valor_parcela" -> CurrencyError(v, "Valor da parcela inválido")

\* moduleSchema: the issues of one row, by field.
ModuleFields == {"etapa", "titulo", "limite", "valor", "aviao"}
RowErrors(r) ==
  [f \in ModuleFields |->
     CASE f = "etapa" -> StringMin1(r.etapa, TooSmall)
       [] f = "titulo" -> StringMin1(r.titulo, "Título é obrigatório")
       [] f = "limite" -> StringMin1(r.limite, TooSmall)
       [] f = "valor" -> OptionalString(r.valor)
       [] f = "aviao" -> OptionalArray(r.aviao)]
NoRowErrors == [f \in ModuleFields |-> NoError]

\* The error map the resolver produces for the form values vals: the first
\* issue of each field path, modulos by row index.
CourseErrorsRowsTogether(vals) ==
  [top |-> [f \in TopFields |-> FieldError(f, vals.top[f])],
   aeronaves |-> OptionalArray(vals.aeronaves),
   modulos |-> [i \in 1..Len(vals.modulos.items) |->
                  IF \E j \in 1..Len(vals.modulos.items) :
                       RowErrors(vals.modulos.items[j]) # NoRowErrors
                  THEN RowErrors(vals.modulos.items[
                         CHOOSE j \in 1..Len(vals.modulos.items) :
                           RowErrors(vals.modulos.items[j]) # NoRowErrors])
                  ELSE NoRowErrors]]
CourseErrors(vals) ==
  [top |-> [f \in TopFields |-> FieldError(f, vals.top[f])],
   aeronaves |-> OptionalArray(vals.aeronaves),
   modulos |-> [i \in 1..Len(vals.modulos.items) |->
                  RowErrors(vals.modulos.items[i])]]

\* formState.errors of a form without errors.
NoErrors ==
  [top |-> [f \in TopFields |-> NoError], aeronaves |-> NoError,
   modulos |-> <<>>]

\* isEmptyObject(errors): no path of the map has an error.
IsEmptyErrorsTopOnly(errs) ==
  /\ \A f \in TopFields : errs.top[f] = NoError
  /\ errs.aeronaves = NoError
IsEmptyErrors(errs) ==
  /\ \A f \in TopFields : errs.top[f] = NoError
  /\ errs.aeronaves = NoError
  /\ \A i \in DOMAIN errs.modulos : errs.modulos[i] = NoRowErrors

\* onInvalid: Array.isArray(errors?.modulos) && errors.modulos.some((e) => e?.titulo)
HasModuleTitleError(errs) ==
  \E i \in DOMAIN errs.modulos : errs.modulos[i].titulo # NoError

ModuleTitleMsg == "Preencha o título em todos os módulos."
RequiredFieldsMsg == "Verifique os campos obrigatórios."

\* onInvalid: the description of the toast
InvalidDescription(errs) ==
  IF HasModuleTitleError(errs) THEN ModuleTitleMsg ELSE RequiredFieldsMsg

\* ---- the loaded records of the model
\* A nested object as the remote store may send it: absent, null, or an object
\* with each leaf absent or supplied.
Nested(leaves) ==
  {UndefinedObj, NullObj} \cup
  {Obj(a) : a \in [leaves -> {Undefined, "remote"}]}

\* The scalar fields come together: all absent, all null or all supplied.
Together(fields) ==
  {[f \in fields |-> v] : v \in {Undefined, Null, "remote"}}

RemoteTx2 ==
  {UndefinedArr, Arr(<<>>), Arr(<<[name_label |-> "a", name_valor |-> "b"]>>)}

RemoteConfigs ==
  {UndefinedObj, NullObj} \cup
  {Obj([scalars |-> s, tx2 |-> t, pagina_venda |-> p, adc |-> a, ead |-> e]) :
     s \in Together(ConfigScalars), t \in RemoteTx2,
     p \in Nested(PaginaVendaLeaves), a \in Nested(AdcLeaves),
     e \in Nested(EadLeaves)}

RemoteModulos ==
  {UndefinedArr, NullArr,
   Arr(<<[etapa |-> "etapa1", titulo |-> "", limite |-> "1", valor |-> "",
          aviao |-> UndefinedArr]>>)}

RemoteRecords ==
  {[tag |-> "object", top |-> t, config |-> c, aeronaves |-> UndefinedArr,
    modulos |-> m] :
     t \in Together(TopFields), c \in RemoteConfigs, m \in RemoteModulos}

\* initialData while the record is loading, or in create mode.
NoRecord ==
  [tag |-> "null", top |-> DefaultTop, config |-> UndefinedObj,
   aeronaves |-> UndefinedArr, modulos |-> UndefinedArr]

\* What a step of the course form did besides changing the form state.
NoOutcome == [op |-> "none", description |-> ""]
\* handleSubmit: onSubmit(data)
OnSubmitOutcome == [op |-> "onSubmit", description |-> ""]
\* onInvalid: toast({ title: 'Erro de validação', description, variant })
InvalidToast(description) == [op |-> "toast", description |-> description]
\* parcelas onChange: e.target.value
ParcelasTyped(raw) == [op |-> "parcelas", description |-> raw]

CourseInit ==
  /\ initialData = NoRecord
  /\ values = DefaultValues
  /\ errors = NoErrors
  /\ isSubmitted = FALSE
  /\ edits = 0
  /\ outcome = NoOutcome

\* useEffect(() => { if (!initialData) return; form.reset({...}) },
\* [initialData]): the record c arrives as the initialData prop and the effect
\* runs. form.reset also clears the errors and the submitted flag.
ApplyInitialData(c) ==
  /\ initialData.tag = "null"
  /\ initialData' = c
  /\ values' = IF c.tag = "null" THEN values ELSE ResetValues(c)
  /\ errors' = NoErrors
  /\ isSubmitted' = FALSE
  /\ outcome' = NoOutcome
  /\ UNCHANGED <<edits, uvars, fvars>>

CourseNext == \E c \in RemoteRecords : ApplyInitialData(c)

\* ---- editing the course
\* The inputs bound with form.register(name), and what is typed into them.
RegisteredFields == {"nome", "titulo", "duracao", "tipo", "categoria"}
Typed(f) ==
  CASE f = "duracao" -> {"", " 12 ", "1a"}
    [] f \in {"nome", "titulo"} -> {"", " ", "x"}
    [] f \in {"tipo", "categoria"} -> {"", " "}

\* <Input {...form.register(f)} />: the text t is typed into the field f. Once
\* the form has been submitted a change validates the field again.
TypeText(f, t) ==
  /\ edits < MaxEdits
  /\ t # values.top[f]
  /\ values' = [values EXCEPT !.top[f] = t]
  /\ errors' = IF isSubmitted
                THEN [errors EXCEPT !.top[f] = FieldError(f, t)]
                ELSE errors
  /\ edits' = edits + 1
  /\ outcome' = NoOutcome
  /\ UNCHANGED <<initialData, isSubmitted, uvars, fvars>>

\* What is typed or pasted into the parcelas input.
TypedParcelas == {"", "0", "1a", " 12 ", "a1b2"}

\* parcelas onChange: form.setValue('parcelas', onlyDigits, { shouldValidate: true })
ChangeParcelas(raw) ==
  LET onlyDigits == Str(OnlyDigits(Chars(raw)))
  IN /\ edits < MaxEdits
     /\ values' = [values EXCEPT !.top.parcelas = onlyDigits]
     /\ errors' = [errors EXCEPT !.top.parcelas = ParcelasError(onlyDigits)]
     /\ edits' = edits + 1
     /\ outcome' = ParcelasTyped(raw)
     /\ UNCHANGED <<initialData, isSubmitted, uvars, fvars>>

\* addModule: the row it appends.
NewModule ==
  [etapa |-> "etapa1", titulo |-> "", limite |-> "1", valor |-> "",
   aviao |-> UndefinedArr]

\* form.getValues('modulos') ?? []
CurrentModulos ==
  IF values.modulos.tag = "array" THEN values.modulos.items ELSE <<>>

AddModule ==
  /\ edits < MaxEdits
  /\ Len(CurrentModulos) < MaxModules
  /\ values' = [values EXCEPT !.modulos = Arr(Append(CurrentModulos, NewModule))]
  /\ edits' = edits + 1
  /\ outcome' = NoOutcome
  /\ UNCHANGED <<initialData, errors, isSubmitted, uvars, fvars>>

\* current.splice(index, 1)
Splice(rows, i) == SubSeq(rows, 1, i - 1) \o SubSeq(rows, i + 1, Len(rows))

\* removeModule(index), from the button of the row at index i
RemoveModule(i) ==
  /\ edits < MaxEdits
  /\ i \in 1..Len(CurrentModulos)
  /\ values' = [values EXCEPT !.modulos = Arr(Splice(CurrentModulos, i))]
  /\ edits' = edits + 1
  /\ outcome' = NoOutcome
  /\ UNCHANGED <<initialData, errors, isSubmitted, uvars, fvars>>

\* The inputs of a module row and what is entered into them.
RowInputs == {"etapa", "titulo", "limite", "valor"}
RowTyped(f) ==
  CASE f = "etapa" -> {"etapa1", "etapa2"}
    [] f = "titulo" -> {"", " ", "T"}
    [] f = "limite" -> {"", "1"}
    [] f = "valor" -> {"7"}

\* curr[idx] = { ...curr[idx], [f]: t }; form.setValue('modulos', curr)
ChangeModule(i, f, t) ==
  /\ edits < MaxEdits
  /\ i \in 1..Len(CurrentModulos)
  /\ t # CurrentModulos[i][f]
  /\ values' = [values EXCEPT
                  !.modulos = Arr([CurrentModulos EXCEPT ![i][f] = t])]
  /\ edits' = edits + 1
  /\ outcome' = NoOutcome
  /\ UNCHANGED <<initialData, errors, isSubmitted, uvars, fvars>>

\* <form onSubmit={form.handleSubmit(handleSubmit, onInvalid)}>: the resolver
\* validates the form values; without errors handleSubmit calls onSubmit; with
\* errors onInvalid classifies form.formState.errors, which is the error map
\* of the last render, and only then is the new error map published to the
\* form state. The values are not changed.
SubmitCourse ==
  LET errs == CourseErrors(values)
  IN /\ isSubmitted' = TRUE
     /\ IF IsEmptyErrors(errs)
        THEN /\ outcome' = OnSubmitOutcome
             /\ errors' = NoErrors
        ELSE /\ outcome' = InvalidToast(InvalidDescription(errors))
             /\ errors' = errs
     /\ UNCHANGED <<initialData, values, edits, uvars, fvars>>

\* ---- the records loaded into the editing session
ValidTop == [DefaultTop EXCEPT !.nome = "x", !.titulo = "x"]
EditTops ==
  {[ValidTop EXCEPT !.titulo = ""],
   ValidTop,
   [ValidTop EXCEPT !.parcelas = " 12 "],
   [ValidTop EXCEPT !.valor = "-1,00"]}
EditModulos ==
  {UndefinedArr,
   Arr(<<NewModule>>),
   Arr(<<[NewModule EXCEPT !.titulo = "T", !.limite = ""]>>),
   Arr(<<[NewModule EXCEPT !.titulo = "T", !.valor = Undefined,
                           !.aviao = Arr(<<"7">>)],
         [NewModule EXCEPT !.etapa = "etapa2"]>>)}
EditRecords ==
  {[tag |-> "object", top |-> t, config |-> UndefinedObj,
    aeronaves |-> UndefinedArr, modulos |-> m] :
     t \in EditTops, m \in EditModulos}

LoadCourse == \E c \in EditRecords : ApplyInitialData(c)
TypeField == \E f \in RegisteredFields : \E t \in Typed(f) : TypeText(f, t)
TypeParcelas == \E raw \in TypedParcelas : ChangeParcelas(raw)
Remove == \E i \in 1..MaxModules : RemoveModule(i)
EditModule ==
  \E i \in 1..MaxModules : \E f \in RowInputs : \E t \in RowTyped(f) :
    ChangeModule(i, f, t)

EditNext ==
  \/ LoadCourse
  \/ TypeField
  \/ TypeParcelas
  \/ AddModule
  \/ Remove
  \/ EditModule
  \/ SubmitCourse

\* ------------------------------------------------- the component form
\* A value of the loaded record that may be a number or a string.
JsUndefined == [t |-> "undefined", n |-> 0, s |-> ""]
JsNull == [t |-> "null", n |-> 0, s |-> ""]
Num(n) == [t |-> "number", n |-> n, s |-> ""]
Text(s) == [t |-> "string", n |-> 0, s |-> s]

\* String(v), for a number and for a string.
JsString(v) == IF v.t = "number" THEN ToString(v.n) ELSE v.s

\* v || d, for a string or an absent value.
OrElse(v, d) == IF Truthy(v) THEN v ELSE d

\* hydrateForm: ordenar: record.ordenar !== undefined && record.ordenar !== null
\*   ? String(record.ordenar) : ''
HydrateOrdenarFalsy(v) ==
  IF v.t \in {"undefined", "null"} \/ v = Num(0) \/ v = Text("")
  THEN "" ELSE JsString(v)
HydrateOrdenar(v) ==
  IF v.t # "undefined" /\ v.t # "null" THEN JsString(v) ELSE ""

ComponentFields == {"nome", "ordenar", "short_code", "id_curso", "ativo", "obs"}

\* useForm({ defaultValues }) of the component form, but for tipo_conteudo.
ComponentDefaults == [f \in ComponentFields |-> IF f = "ativo" THEN "s" ELSE ""]

\* The records useComponentById returns.
ComponentRecords ==
  [tag : {"object"}, nome : {Undefined, "x"}, tipo_conteudo : {Null, "5", "19"},
   ordenar : {JsUndefined, JsNull, Num(0), Num(7), Num(12), Text(""),
              Text("7"), Text("12")},
   short_code : {"x"}, id_curso : {Null}, ativo : {Undefined, "n"},
   obs : {Undefined}]
NoComponent ==
  [tag |-> "null", nome |-> Undefined, tipo_conteudo |-> Undefined,
   ordenar |-> JsUndefined, short_code |-> Undefined, id_curso |-> Undefined,
   ativo |-> Undefined, obs |-> Undefined]

\* What a submit of the component form did.
NoSubmit == [op |-> "none", errors |-> [f \in {} |-> NoError]]

ComponentInit ==
  /\ record = NoComponent
  /\ componentValues = ComponentDefaults
  /\ componentOutcome = NoSubmit
  /\ id = Undefined
  /\ requests = <<>>
  /\ location = "form"

\* {loadingRecord && id ? <Loader2 /> : <Form>}: the form is on the screen.
FormShown == location = "form" /\ ~(id # Undefined /\ record.tag = "null")

\* hydrateForm: useEffect(() => { if (record) form.reset({...}) }, [record?.id])
HydrateForm(r) ==
  /\ id # Undefined
  /\ location = "form"
  /\ record.tag = "null"
  /\ record' = r
  /\ componentValues' =
       [f \in ComponentFields |->
          CASE f = "ordenar" -> HydrateOrdenar(r.ordenar)
            [] f = "ativo" -> OrElse(r.ativo, "s")
            [] OTHER -> OrElse(r[f], "")]
  /\ tipo_conteudo' = OrElse(r.tipo_conteudo, "")
  /\ componentOutcome' = NoSubmit
  /\ Quiet
  /\ UNCHANGED <<isUploading, localPreviews, allocated, revoked, nextBatch,
                 files, pc, started, inflight, succeeded, failed, refetched,
                 queryFetching, uploadsData, toastCount, cvars, id, requests,
                 location>>

\* useComponentById(String(id || ''), { enabled: !!id }) fails: loadingRecord
\* turns false and record stays undefined.
RecordFails ==
  /\ id # Undefined
  /\ location = "form"
  /\ record.tag = "null"
  /\ record' = [NoComponent EXCEPT !.tag = "error"]
  /\ UNCHANGED <<componentValues, componentOutcome, id, requests, location,
                 uvars, cvars>>

\* <Input {...field} />: the text t is typed into nome or ordenar.
TypeComponent(f, t) ==
  /\ FormShown
  /\ f \in {"nome", "ordenar"}
  /\ t # componentValues[f]
  /\ componentValues' = [componentValues EXCEPT ![f] = t]
  /\ componentOutcome' = NoSubmit
  /\ UNCHANGED <<record, id, requests, location, uvars, cvars>>

\* e.target.value.replace(/\s+/g, '_')
RECURSIVE ReplaceSpaces(_)
ReplaceSpaces(cs) ==
  IF cs = <<>> THEN <<>>
  ELSE IF IsSpace(Head(cs))
       THEN <<"_">> \o ReplaceSpaces(TrimStart(cs))
       ELSE <<Head(cs)>> \o ReplaceSpaces(Tail(cs))

\* short_code onChange: field.onChange(normalized)
ChangeShortCode(raw) ==
  /\ FormShown
  /\ componentValues' =
       [componentValues EXCEPT !["short_code"] = Str(ReplaceSpaces(Chars(raw)))]
  /\ componentValues' # componentValues
  /\ componentOutcome' = NoSubmit
  /\ UNCHANGED <<record, id, requests, location, uvars, cvars>>

\* ordenar: z.coerce.string().optional()
OrdenarError(v) == NoError

\* ativo: z.enum(['s', 'n']).default('s')
AtivoError(v) == EnumError(v, {"s", "n"}, TRUE, NoError)

\* The error map the resolver produces for the component form.
ComponentErrors ==
  [f \in ComponentFields \cup {"tipo_conteudo"} |->
     CASE f = "nome" -> StringMin1(componentValues[f], "Nome é obrigatório")
       [] f = "tipo_conteudo" ->
            StringMin1(tipo_conteudo, "Tipo de conteúdo é obrigatório")
       [] f = "ordenar" -> OrdenarError(componentValues[f])
       [] f = "short_code" ->
            StringMin1(componentValues[f], "Short code é obrigatório")
       [] f = "ativo" -> AtivoError(componentValues[f])
       [] f \in {"id_curso", "obs"} -> OptionalString(componentValues[f])]

\* handleSubmit: the remote calls it issues, each by its operation and the id
\* it carries: if (id) updateMutation.mutate({ id: String(id), data: payload },
\* ...) else createMutation.mutate(payload, ...)
HandleSubmitBoth ==
  <<[op |-> "update", id |-> id], [op |-> "create", id |-> Undefined]>>
HandleSubmit ==
  IF id # Undefined
  THEN <<[op |-> "update", id |-> id]>>
  ELSE <<[op |-> "create", id |-> Undefined]>>

\* <form onSubmit={form.handleSubmit(handleSubmit)}>: the resolver validates
\* the values and, when they are valid, handleSubmit runs on them. The submit
\* button is disabled while createMutation or updateMutation is loading.
SubmitComponent ==
  LET errs == ComponentErrors
      valid == \A f \in DOMAIN errs : errs[f] = NoError
  IN /\ FormShown
     /\ requests = <<>>
     /\ componentOutcome' =
          [op |-> IF ~valid THEN "invalid"
                  ELSE IF id # Undefined THEN "update" ELSE "create",
           errors |-> errs]
     /\ requests' = IF valid THEN requests \o HandleSubmit ELSE requests
     /\ <<componentOutcome, requests>>' # <<componentOutcome, requests>>
     /\ UNCHANGED <<record, componentValues, id, location, uvars, cvars>>

\* The pending call succeeds: onSuccess: () => navigate('/admin/site/
\* conteudo-site'), which runs when the page is still mounted.
MutationSuccess ==
  /\ requests # <<>>
  /\ requests' = Tail(requests)
  /\ location' = IF location = "form" THEN "/admin/site/conteudo-site"
                 ELSE location
  /\ UNCHANGED <<record, componentValues, componentOutcome, id, uvars, cvars>>

\* The pending call fails: handleSubmit passes no onError.
MutationError ==
  /\ requests # <<>>
  /\ requests' = Tail(requests)
  /\ UNCHANGED <<record, componentValues, componentOutcome, id, location,
                 uvars, cvars>>

\* goBack = () => navigate('/admin/site/conteudo-site')
GoBack ==
  /\ location = "form"
  /\ location' = "/admin/site/conteudo-site"
  /\ UNCHANGED <<record, componentValues, componentOutcome, id, requests,
                 uvars, cvars>>

Hydrate == \E r \in ComponentRecords : HydrateForm(r)
TypeInput ==
  \E f \in {"nome", "ordenar"} : \E t \in {"", "x", "7"} : TypeComponent(f, t)
TypeShortCode == \E raw \in {" ", "x", " 12 "} : ChangeShortCode(raw)

\* ------------------------------------------------- specification
Drop == \E n \in 0..MaxFiles : HandleFilesDrop(n)
Resolve == \E b \in Batches : \E i \in 1..MaxFiles : UploadResolve(b, i)
Reject ==
  \E b \in Batches : \E i \in 1..MaxFiles : \E err \in UploadErrors :
    UploadReject(b, i, err)
Refetched == \E b \in Batches : \E ok \in BOOLEAN : RefetchSettle(b, ok)
Listed == \E ok \in BOOLEAN : QuerySettle(ok)
Select == \E v \in TypeValues : SelectTipoConteudo(v)

UploadNext ==
  \/ Drop
  \/ Resolve
  \/ Reject
  \/ Refetched
  \/ QueryFetch
  \/ Listed
  \/ Select

vars == <<uvars, cvars, fvars>>

Init == UploadInit /\ CourseInit /\ ComponentInit

\* The component editor: the course form is not on the page.
Next == UploadNext /\ UNCHANGED <<cvars, fvars>>

Spec == Init /\ [][Next]_vars

\* Every remote call settles: a pending uploadFile call resolves or rejects, a
\* pending refetch settles.
UploadSettles(b) ==
  /\ \E i \in 1..MaxFiles :
       \/ UploadResolve(b, i)
       \/ \E err \in UploadErrors : UploadReject(b, i, err)
  /\ UNCHANGED <<cvars, fvars>>

RefetchSettles(b) ==
  /\ \E ok \in BOOLEAN : RefetchSettle(b, ok)
  /\ UNCHANGED <<cvars, fvars>>

\* The upload manager alone, in an editing session whose content type is the
\* gallery: batches are dropped and their remote calls settle. The content
\* type is not changed and the query observer does not fetch; neither touches
\* the previews or isUploading.
GalleryInit ==
  /\ tipo_conteudo = "19"
  /\ isUploading = FALSE
  /\ localPreviews = <<>>
  /\ allocated = {}
  /\ revoked = {}
  /\ nextBatch = 1
  /\ files = [b \in Batches |-> 0]
  /\ pc = [b \in Batches |-> "idle"]
  /\ started = {}
  /\ inflight = {}
  /\ succeeded = {}
  /\ failed = {}
  /\ refetched = {}
  /\ queryFetching = FALSE
  /\ uploadsData = NoListing
  /\ toastCount = [b \in Batches |-> 0]
  /\ event = NoEvent
  /\ CourseInit
  /\ ComponentInit

ManagerNext ==
  \/ Drop /\ UNCHANGED <<cvars, fvars>>
  \/ Resolve /\ UNCHANGED <<cvars, fvars>>
  \/ Reject /\ UNCHANGED <<cvars, fvars>>
  \/ Refetched /\ UNCHANGED <<cvars, fvars>>

FairSpec ==
  /\ GalleryInit
  /\ [][ManagerNext]_vars
  /\ \A b \in Batches : WF_vars(UploadSettles(b)) /\ WF_vars(RefetchSettles(b))

\* The course editor: the component form is not on the page.
CourseSpec == Init /\ [][CourseNext]_vars

\* An editing session of the course form.
EditSpec == Init /\ [][EditNext]_vars

\* An editing session of the component form, without uploads.
ComponentNext ==
  \/ Hydrate
  \/ RecordFails
  \/ TypeInput
  \/ TypeShortCode
  \/ Select /\ FormShown /\ UNCHANGED <<cvars, fvars>>
  \/ SubmitComponent
  \/ MutationSuccess
  \/ MutationError
  \/ GoBack

\* The page is opened to create a component (no id) or to edit one.
ComponentPageInit ==
  /\ UploadInit
  /\ CourseInit
  /\ record = NoComponent
  /\ componentValues = ComponentDefaults
  /\ componentOutcome = NoSubmit
  /\ id \in {Undefined, "1"}
  /\ requests = <<>>
  /\ location = "form"

ComponentSpec == ComponentPageInit /\ [][ComponentNext]_vars

\* ------------------------------------------------- properties
HandlesOf(b) == {h \in allocated : h[1] = b}
Indexes(b, S) == {c[2] : c \in CallsOf(b, S)}
Running(b) == pc[b] \in {"uploading", "refetching"}

\* C1: fail-fast. When the k-th uploadFile call of a batch rejects, the calls
\* started for the batch are exactly 1..k, exactly the k-1 calls before it have
\* succeeded, and in the step that ends the batch the preview set becomes empty
\* and isUploading false; nothing of the batch starts afterwards.
C1_FailFast ==
  [][\A b \in Batches : \A k \in 1..MaxFiles :
       <<b, k>> \in failed' =>
         /\ Indexes(b, started') = 1..k
         /\ Indexes(b, succeeded') = 1..(k - 1)
         /\ Indexes(b, inflight') = {}
         /\ pc'[b] = "done"
         /\ <<b, k>> \notin failed =>
              localPreviews' = <<>> /\ isUploading' = FALSE]_vars

\* A batch of MaxFiles files whose first call failed, and one whose last did.
C1_Witness ==
  \E b, c \in Batches :
    /\ files[b] = MaxFiles /\ <<b, 1>> \in failed /\ <<b, 2>> \notin started
    /\ files[c] = MaxFiles /\ <<c, MaxFiles>> \in failed
    /\ Cardinality(CallsOf(c, succeeded)) = MaxFiles - 1
    /\ localPreviews = <<>> /\ ~isUploading

\* C2: finalization on every exit path. Every batch that has started
\* eventually is done with all its preview handles revoked, the preview set
\* empty and isUploading false.
C2_Finalized ==
  \A b \in Batches :
    Running(b) ~> (/\ pc[b] = "done"
                   /\ HandlesOf(b) \subseteq revoked
                   /\ Cardinality(HandlesOf(b)) = files[b]
                   /\ localPreviews = <<>>
                   /\ ~isUploading)

\* Two finished batches, one that failed and one that succeeded, all handles
\* revoked.
C2_Witness ==
  \E b, c \in Batches :
    /\ pc[b] = "done" /\ CallsOf(b, failed) # {}
    /\ pc[c] = "done" /\ c \in refetched
    /\ allocated # {} /\ allocated \subseteq revoked
    /\ localPreviews = <<>> /\ ~isUploading

\* C3: the uploadFile calls of a batch are issued one at a time in the order of
\* the files: at most one call of a batch is in flight, the calls started are a
\* prefix 1..m of the files, and every call before the last started succeeded.
C3_Sequential ==
  \A b \in Batches :
    /\ Cardinality(CallsOf(b, inflight)) <= 1
    /\ \E m \in 0..files[b] : Indexes(b, started) = 1..m
    /\ \A i \in Indexes(b, started) :
         i > 1 => <<b, i - 1>> \in succeeded /\ <<b, i - 1>> \notin inflight

\* Two batches in flight at once, one of them at its second file.
C3_Witness ==
  \E b, c \in Batches :
    /\ b # c
    /\ <<b, 2>> \in inflight /\ <<b, 1>> \in succeeded
    /\ CallsOf(c, inflight) # {}

\* C4: a batch refetches the listing only once its last upload has completed,
\* and a finished batch has refetched if and only if all its uploads succeeded.
C4_RefetchAfterUploads ==
  \A b \in Batches :
    /\ b \in refetched =>
         /\ CallsOf(b, inflight) = {}
         /\ Indexes(b, succeeded) = 1..files[b]
         /\ CallsOf(b, failed) = {}
    /\ pc[b] = "refetching" => b \in refetched
    /\ pc[b] = "done" => (b \in refetched <=> CallsOf(b, failed) = {})
    /\ pc[b] = "done" => (b \in refetched <=> Indexes(b, succeeded) = 1..files[b])

\* A finished batch that refetched and a finished batch that did not.
C4_Witness ==
  \E b, c \in Batches :
    /\ pc[b] = "done" /\ b \in refetched /\ files[b] = MaxFiles
    /\ pc[c] = "done" /\ c \notin refetched

\* A fetch of the listing is issued in this step.
FetchIssued == refetched' # refetched \/ (~queryFetching /\ queryFetching')

\* C5: no fetch of the upload listing is issued while tipo_conteudo is not the
\* gallery value.
C5_NoFetchOutsideGallery == [][FetchIssued => isGallery]_vars

\* C6: no batch starts while isUploading is true.
C6_DropDisabledWhileUploading == [][nextBatch' # nextBatch => ~isUploading]_vars

\* C7: in the step that starts a batch (the one that issues its first
\* uploadFile call), one handle per file of the batch has been allocated and
\* appended, in order, to the preview set.
C7_PreviewsBeforeUpload ==
  [][\A b \in Batches :
       (CallsOf(b, started) = {} /\ CallsOf(b, started') # {}) =>
         /\ files'[b] > 0
         /\ Cardinality(HandlesOf(b)') = files'[b]
         /\ Len(localPreviews') = Len(localPreviews) + files'[b]
         /\ SubSeq(localPreviews', 1, Len(localPreviews)) = localPreviews
         /\ \A j \in 1..files'[b] :
              localPreviews'[Len(localPreviews) + j] = <<b, j>>]_vars

\* A batch of MaxFiles files with its first call in flight and all its previews
\* shown after those of a batch still running.
C7_Witness ==
  \E b, c \in Batches :
    /\ b # c /\ Running(c)
    /\ files[b] = MaxFiles /\ CallsOf(b, inflight) = {<<b, 1>>}
    /\ Len(localPreviews) = files[b] + files[c]

\* C8: handleFilesDrop with an empty selection changes nothing and issues no
\* upload, refetch or toast.
C8_EmptyDropNoOp ==
  [][event' = EmptyDropEvent =>
       UNCHANGED <<tipo_conteudo, isUploading, localPreviews, allocated,
                   revoked, nextBatch, files, pc, started, inflight, succeeded,
                   failed, refetched, queryFetching, uploadsData,
                   toastCount>>]_vars

\* An empty drop while a batch is uploading.
C8_Witness == event = EmptyDropEvent /\ isUploading /\ localPreviews # <<>>

\* The preferred description: the server's message if there is one,
\* else the transport error's message if there is one, else the generic text.
HasText(m) == m # Undefined /\ m # ""
ExpectedDescription(err) ==
  CASE HasText(err.body) -> err.body
    [] ~HasText(err.body) /\ HasText(err.message) -> err.message
    [] OTHER -> "Falha ao enviar arquivo."

\* C9: a failing batch sends exactly one toast, with the most specific message
\* of the error; a batch whose uploads all succeed sends none.
C9_OneToastPerFailure ==
  [][/\ \A b \in Batches : \A i \in 1..MaxFiles : \A err \in UploadErrors :
          UploadReject(b, i, err) =>
            /\ event' = ToastEvent(ExpectedDescription(err))
            /\ toastCount'[b] = 1
     /\ event'.op = "toast" => failed' # failed
     /\ \A b \in Batches :
          /\ toastCount'[b] = Cardinality(CallsOf(b, failed'))
          /\ b \in refetched' => toastCount'[b] = 0]_vars

\* A toast carrying the server's message has just been sent, and another batch
\* has finished without sending any.
C9_Witness ==
  /\ event.op = "toast"
  /\ event.description = "srv"
  /\ \E b \in Batches : pc[b] = "done" /\ toastCount[b] = 0


\* The leaf l of the nested object f of config, as the loaded record supplies
\* it, and as the form holds it (Undefined when the object lacks it).
Supplied(c, f, l) ==
  LET o == ConfigObj(c, f)
  IN IF NullishObj(o) THEN Undefined ELSE o.at[l]
Held(f, l) ==
  LET o == values.config[f]
  IN IF NullishObj(o) THEN Undefined ELSE o.at[l]

NestedLeaves(f) ==
  CASE f = "pagina_venda" -> PaginaVendaLeaves
    [] f = "adc" -> AdcLeaves
    [] f = "ead" -> EadLeaves
NestedDefault(f) ==
  CASE f = "pagina_venda" -> DefaultPaginaVenda
    [] f = "adc" -> DefaultAdc
    [] f = "ead" -> DefaultEad

\* The loaded record c supplies some, not all, of the leaves of its nested
\* object f.
SuppliesOnlySome(c, f) ==
  /\ \E l \in NestedLeaves(f) : ~Nullish(Supplied(c, f, l))
  /\ \E l \in NestedLeaves(f) : Nullish(Supplied(c, f, l))

\* C10: after a record is loaded that supplies only some leaves of
\* pagina_venda, adc or ead, every leaf of that object holds the supplied value
\* if the record supplies it and the leaf's default if not.
C10_PerLeafReconciliation ==
  initialData.tag = "object" =>
    \A f \in {"pagina_venda", "adc", "ead"} :
      SuppliesOnlySome(initialData, f) =>
        \A l \in NestedLeaves(f) :
          Held(f, l) =
            Coalesce(Supplied(initialData, f, l), NestedDefault(f).at[l])

\* C11: after a record is loaded whose config is missing, every config leaf
\* holds the value defaultValues gives it; after a record is loaded that lacks
\* one of the nested objects of config, every leaf of that object holds the
\* value defaultValues gives it.
C11_MissingConfigDefaults ==
  initialData.tag = "object" =>
    /\ NullishObj(initialData.config) => values.config = DefaultValues.config
    /\ \A f \in {"pagina_venda", "adc", "ead"} :
         NullishObj(ConfigObj(initialData, f)) =>
           values.config[f] = DefaultValues.config[f]

\* C12: after a record is loaded, every top-level field holds the record's
\* value if the record has one that is not null, and the field's default
\* otherwise.
C12_MergedOverDefaults ==
  initialData.tag = "object" =>
    /\ \A f \in TopFields :
         values.top[f] = Coalesce(initialData.top[f], DefaultValues.top[f])
    /\ values.aeronaves =
         (IF initialData.aeronaves.tag = "array" THEN initialData.aeronaves
          ELSE DefaultValues.aeronaves)
    /\ values.modulos =
         (IF initialData.modulos.tag = "array" THEN initialData.modulos
          ELSE DefaultValues.modulos)

\* The rows of the course, and a row whose title is missing.
Rows == CurrentModulos
NonEmpty(v) == IsString(v) /\ v # ""
MissingTitle(r) == ~NonEmpty(r.titulo)

\* C13: when a submit fails validation, the toast carries the module message
\* if the title of at least one module row is missing, and the message to
\* check the required fields otherwise.
C13_InvalidMessage ==
  [][(SubmitCourse /\ outcome'.op = "toast") =>
       outcome'.description =
         (IF \E i \in 1..Len(Rows) : MissingTitle(Rows[i])
          THEN ModuleTitleMsg ELSE RequiredFieldsMsg)]_vars

\* Every top-level field passes its validation; every module row passes.
AllTopValid ==
  /\ \A f \in TopFields : FieldError(f, values.top[f]) = NoError
  /\ OptionalArray(values.aeronaves) = NoError
AllRowsValid == \A i \in 1..Len(Rows) : RowErrors(Rows[i]) = NoRowErrors

\* C14: a submit calls onSubmit if and only if every top-level field and every
\* module row passes validation; otherwise it calls no onSubmit, leaves the
\* form values as they are and produces an error map that has an error at the
\* path of each failing field, by row index for the modules.
C14_AtomicValidation ==
  [][SubmitCourse =>
       /\ outcome'.op = "onSubmit" <=> (AllTopValid /\ AllRowsValid)
       /\ values' = values
       /\ ~(AllTopValid /\ AllRowsValid) =>
            /\ outcome'.op = "toast"
            /\ \A f \in TopFields :
                 errors'.top[f] # NoError <=>
                   FieldError(f, values.top[f]) # NoError
            /\ DOMAIN errors'.modulos = 1..Len(Rows)
            /\ \A i \in 1..Len(Rows) : \A g \in ModuleFields :
                 errors'.modulos[i][g] # NoError <=>
                   RowErrors(Rows[i])[g] # NoError]_vars

\* A submit has failed on a top-level field and on the second of two module
\* rows only.
C14_Witness ==
  /\ outcome.op = "toast"
  /\ errors.top["titulo"] # NoError
  /\ Len(errors.modulos) = 2
  /\ errors.modulos[1] = NoRowErrors
  /\ errors.modulos[2]["titulo"] # NoError

\* A text that is empty after trimming.
BlankText(v) == IsString(v) /\ Trim(Chars(v)) = <<>>
RequiredStrings == {"nome", "titulo", "tipo", "categoria"}

\* C15: a submit reports an error on every required string field whose value
\* is empty after trimming.
C15_RequiredTrimmed ==
  [][SubmitCourse =>
       \A f \in RequiredStrings :
         BlankText(values.top[f]) => errors'.top[f] # NoError]_vars

\* C16: on a submit duracao passes if and only if it consists of digits, at
\* least one, and parcelas if and only if it does and its value is at least 1.
C16_IntegerStrings ==
  [][SubmitCourse =>
       /\ IsString(values.top["duracao"]) =>
            (FieldError("duracao", values.top["duracao"]) = NoError <=>
               MatchesDigits(Chars(values.top["duracao"])))
       /\ IsString(values.top["parcelas"]) =>
            (FieldError("parcelas", values.top["parcelas"]) = NoError <=>
               (/\ MatchesDigits(Chars(values.top["parcelas"]))
                /\ ParseInt(Chars(values.top["parcelas"])) >= 1))]_vars

\* A row is valid when its etapa, titulo and limite are not empty.
RowValid(r) == NonEmpty(r.etapa) /\ NonEmpty(r.titulo) /\ NonEmpty(r.limite)

\* C17: the error map of a failed submit has, for each module row, errors under
\* that row's index at exactly the fields among etapa, titulo and limite that
\* are empty in that row, whatever the other rows hold and whether or not the
\* row has valor and aviao; a row is without errors if and only if its etapa,
\* titulo and limite are not empty.
C17_RowsIndependent ==
  [][(SubmitCourse /\ outcome'.op = "toast") =>
       /\ DOMAIN errors'.modulos = 1..Len(Rows)
       /\ \A i \in 1..Len(Rows) :
            /\ errors'.modulos[i] = NoRowErrors <=> RowValid(Rows[i])
            /\ \A g \in {"etapa", "titulo", "limite"} :
                 errors'.modulos[i][g] # NoError <=> ~NonEmpty(Rows[i][g])
            /\ errors'.modulos[i]["valor"] = NoError
            /\ errors'.modulos[i]["aviao"] = NoError]_vars

\* A submit of a course whose top-level fields are valid has failed on the
\* second row alone; the first row has no valor and has aviao.
C17_Witness ==
  /\ outcome.op = "toast"
  /\ \A f \in TopFields : errors.top[f] = NoError
  /\ Len(Rows) = 2
  /\ Rows[1].valor = Undefined
  /\ Rows[1].aviao.tag = "array"
  /\ Len(errors.modulos) = 2
  /\ errors.modulos[1] = NoRowErrors
  /\ errors.modulos[2] # NoRowErrors

\* C18: a submit of the form defaults fails with errors on nome and titulo and
\* on nothing else; a submit of the form defaults with nome and titulo given
\* non-empty values calls onSubmit.
C18_DefaultsRoundTrip ==
  [][SubmitCourse =>
       /\ values = DefaultValues =>
            /\ outcome'.op = "toast"
            /\ {f \in TopFields : errors'.top[f] # NoError} = {"nome", "titulo"}
            /\ errors'.aeronaves = NoError
            /\ errors'.modulos = <<>>
       /\ (\E a, b \in {" ", "x"} :
             values = [DefaultValues EXCEPT !.top.nome = a, !.top.titulo = b])
            => outcome'.op = "onSubmit"]_vars

\* The defaults with nome and titulo filled in have been submitted.
C18_Witness ==
  /\ outcome.op = "onSubmit"
  /\ initialData.tag = "null"
  /\ values = [DefaultValues EXCEPT !.top.nome = "x", !.top.titulo = "x"]

\* C19: after the change handler of parcelas has run on a typed text, the form
\* holds a text of digits only, which the normalization leaves unchanged.
C19_ParcelasDigitsOnly ==
  [][(\E raw \in TypedParcelas : ChangeParcelas(raw)) =>
       LET v == values'.top["parcelas"]
       IN /\ IsString(v)
          /\ \A i \in 1..Len(Chars(v)) : IsDigit(Chars(v)[i])
          /\ Str(OnlyDigits(Chars(v))) = v]_vars

\* A text with letters between the digits was typed and the form holds its
\* digits.
C19_Witness ==
  /\ outcome = ParcelasTyped("a1b2")
  /\ values.top["parcelas"] = "12"

\* The text of the numbers the records of the model carry.
Decimal(n) == CASE n = 0 -> "0" [] n = 7 -> "7" [] n = 12 -> "12"

\* C20: hydration gives ordenar the decimal text of a number, the text itself
\* of a string and the empty text for null or undefined; a submit never
\* reports an error on an ordenar that is a non-empty text of digits.
C20_OrdenarCoerced ==
  [][/\ \A r \in ComponentRecords :
          HydrateForm(r) =>
            componentValues'["ordenar"] =
              (CASE r.ordenar.t = "number" -> Decimal(r.ordenar.n)
                 [] r.ordenar.t = "string" -> r.ordenar.s
                 [] OTHER -> "")
     /\ SubmitComponent =>
          (MatchesDigits(Chars(componentValues["ordenar"])) =>
             componentOutcome'.errors["ordenar"] = NoError)]_vars

\* A record whose ordenar is the number 0 was loaded and the form, holding
\* "0", has been submitted.
C20_Witness ==
  /\ record.tag = "object"
  /\ record.ordenar = Num(0)
  /\ componentValues["ordenar"] = "0"
  /\ componentOutcome.op # "none"

\* C21: a valid submit of the component form issues exactly one remote call,
\* an update carrying the id when the page has one and a create otherwise, and
\* does not navigate; apart from goBack, the page navigates to the listing
\* only in the step in which a pending call succeeds; the step in which a
\* call fails changes neither the location nor the form values.
C21_SubmitOnce ==
  [][/\ (SubmitComponent /\ componentOutcome'.op # "invalid") =>
          /\ requests = <<>>
          /\ requests' =
               <<[op |-> IF id = Undefined THEN "create" ELSE "update",
                  id |-> id]>>
          /\ location' = location
     /\ (location' # location /\ ~GoBack) =>
          /\ requests # <<>>
          /\ requests' = Tail(requests)
          /\ location' = "/admin/site/conteudo-site"
     /\ (MutationSuccess /\ location = "form") => location' # "form"
     /\ MutationError =>
          /\ location' = location
          /\ componentValues' = componentValues
          /\ tipo_conteudo' = tipo_conteudo]_vars

\* On the page of an existing component whose record was loaded, the update
\* issued by a valid submit has failed: the page is still the form, holds the
\* values that were submitted, and no call is pending.
C21_Witness ==
  /\ id # Undefined
  /\ record.tag = "object"
  /\ componentOutcome.op = "update"
  /\ requests = <<>>
  /\ location = "form"

\* C22: isUploading is true in every state in which some batch has an
\* uploadFile call or its refetch pending, so a batch that finishes while
\* another is running leaves it true.
C22_UploadingWhileRunning == (\E b \in Batches : Running(b)) => isUploading

\* C23: a handle is revoked, and leaves the preview set, only in the step that
\* finishes the batch that allocated it; a handle still in the preview set has
\* not been revoked, so none is revoked twice; and once no batch is running
\* every allocated handle has been revoked.
C23_RevokedByOwnBatch ==
  [][/\ \A h \in allocated :
          (\/ h \in revoked' \ revoked
           \/ h \in Range(localPreviews) \ Range(localPreviews')) =>
            (Running(h[1]) /\ pc'[h[1]] = "done")
     /\ Range(localPreviews') \cap revoked' = {}
     /\ (\A b \in Batches : ~Running(b)') => revoked' = allocated']_vars

\* A module as addModule makes it, before any of its inputs is edited.
FreshModule ==
  [etapa |-> "etapa1", titulo |-> "", limite |-> "1", valor |-> "",
   aviao |-> UndefinedArr]

\* C24: addModule appends one module (etapa 'etapa1', empty titulo, limite
\* '1', empty valor) after the existing ones and removeModule(i) takes out the
\* module at i, the others keeping their order; both change nothing but the
\* modules of the form values and call nothing; and the submit of a course
\* that holds a module as addModule made it, its title still empty, fails
\* with the toast that carries the module message.
C24_ModuleEditing ==
  [][/\ AddModule =>
          /\ Rows' = Rows \o <<FreshModule>>
          /\ [values' EXCEPT !.modulos = values.modulos] = values
          /\ outcome'.op = "none"
     /\ \A i \in 1..Len(Rows) :
          RemoveModule(i) =>
            /\ Len(Rows') = Len(Rows) - 1
            /\ \A j \in 1..Len(Rows') :
                 Rows'[j] = IF j < i THEN Rows[j] ELSE Rows[j + 1]
            /\ [values' EXCEPT !.modulos = values.modulos] = values
            /\ outcome'.op = "none"
     /\ (SubmitCourse /\ \E i \in 1..Len(Rows) : Rows[i] = FreshModule) =>
          outcome' = InvalidToast(ModuleTitleMsg)]_vars

====
